---- MODULE Spec2Model ----
(***************************************************************************)
(* Model of src/quick.py (dropbear): the header generation script.  One    *)
(* run of main() resolves the workspace root, runs `cargo expand`, stages  *)
(* the expanded source in target/generated/expanded.rs, runs `cbindgen`    *)
(* on it and exits.  The two external tools and the filesystem are the     *)
(* environment: their exit codes, outputs and failures are inputs.         *)
(***************************************************************************)
EXTENDS Integers, Sequences, FiniteSets, TLC

(***************************************************************************)
(* Bounds                                                                  *)
(***************************************************************************)
\* longest tool output, in characters
MaxLen == 2

\* the runs of main() against one workspace, in the order they are started
Runs == {1, 2}

\* characters of a tool's output: a letter, carriage return, line feed
Chars == {"a", "CR", "LF"}

RECURSIVE SeqsUpTo(_, _)
SeqsUpTo(S, n) ==
    IF n = 0 THEN {<<>>}
    ELSE LET shorter == SeqsUpTo(S, n - 1)
         IN  shorter \cup {Append(s, c) : s \in {t \in shorter : Len(t) = n - 1}, c \in S}

\* what a tool can print on its standard output
Texts == SeqsUpTo(Chars, MaxLen)

\* what a tool can print on its standard error
ErrTexts == {"", "bad config"}

\* exit codes the tools report: 0, and 1 or 101 (a Rust panic) on failure
CargoCodes == {0, 1, 101}
CbindgenCodes == {0, 1}

(***************************************************************************)
(* Paths (sequences of components) and the Path Resolver, lines 8-9        *)
(***************************************************************************)
\* pathlib normalises the root's name and parent: Path("/").name == "",
\* Path("/").parent == Path("/")
PathName(p) == IF p = <<>> THEN "" ELSE p[Len(p)]

PathParent(p) == IF p = <<>> THEN <<>> ELSE SubSeq(p, 1, Len(p) - 1)

\* the one symbolic link of the modelled machine: /lnk -> /ws/scripts
SymlinkAt == <<"lnk">>
SymlinkTarget == <<"ws", "scripts">>

\* Path.resolve(): make the path absolute against the working directory,
\* then walk it, following symbolic links and folding ".." components
RECURSIVE Walk(_, _)
Walk(done, rest) ==
    IF rest = <<>> THEN done
    ELSE LET c == Head(rest)
             next == IF c = ".." THEN PathParent(done)
                     ELSE IF c = "." THEN done
                     ELSE IF Append(done, c) = SymlinkAt THEN SymlinkTarget
                     ELSE Append(done, c)
         IN  Walk(next, Tail(rest))

PathResolve(loc, p) ==
    IF loc.absolute THEN Walk(<<>>, p) ELSE Walk(loc.cwd, p)

\* line 8: script_dir = Path(__file__).parent.resolve()
ScriptDirUnresolved(loc) == PathParent(loc.file)

ScriptDir(loc) == PathResolve(loc, PathParent(loc.file))

\* line 9: root_dir = script_dir.parent if script_dir.name == "scripts" else script_dir
RootDirLexical(loc) ==
    IF PathName(ScriptDirUnresolved(loc)) = "scripts"
    THEN PathResolve(loc, PathParent(ScriptDirUnresolved(loc)))
    ELSE ScriptDir(loc)

RootDir(loc) ==
    IF PathName(ScriptDir(loc)) = "scripts"
    THEN PathParent(ScriptDir(loc))
    ELSE ScriptDir(loc)

\* the directories that hold a copy of the script on the modelled machine
RealDirs == {<<"ws", "scripts">>, <<"ws">>, <<>>, <<"scripts">>, <<"ws", "scripts", "tools">>}

\* the ways __file__ can name the script that lives in directory d:
\* absolute; relative to d; relative to d's parent; through ".." from a
\* sibling directory; through the symbolic link
LocationsOf(d) ==
    {[file |-> Append(d, "quick.py"), absolute |-> TRUE, cwd |-> <<>>],
     [file |-> <<"quick.py">>, absolute |-> FALSE, cwd |-> d]}
    \cup (IF d = <<>> THEN {} ELSE
          {[file |-> <<PathName(d), "quick.py">>, absolute |-> FALSE, cwd |-> PathParent(d)],
           [file |-> <<"..", PathName(d), "quick.py">>, absolute |-> FALSE,
            cwd |-> Append(PathParent(d), "other")]})
    \cup (IF d = SymlinkTarget
          THEN {[file |-> Append(SymlinkAt, "quick.py"), absolute |-> TRUE, cwd |-> <<>>]}
          ELSE {})


(***************************************************************************)
(* Text conversions of the runtime                                         *)
(***************************************************************************)
\* subprocess.run(..., text=True), lines 14-19 and 44-54: the captured
\* bytes are decoded and "\r\n", then "\r", are replaced by "\n"
RECURSIVE TranslateNewlines(_)
TranslateNewlines(s) ==
    IF s = <<>> THEN <<>>
    ELSE IF Head(s) = "CR"
         THEN IF Len(s) >= 2 /\ s[2] = "LF"
              THEN <<"LF">> \o TranslateNewlines(SubSeq(s, 3, Len(s)))
              ELSE <<"LF">> \o TranslateNewlines(Tail(s))
         ELSE <<Head(s)>> \o TranslateNewlines(Tail(s))

CapturedText(bytes) == TranslateNewlines(bytes)

\* os.linesep of the platform the script runs on
LineSep(os) == IF os = "nt" THEN <<"CR", "LF">> ELSE <<"LF">>

\* Path.write_text(data, encoding="utf-8"), line 35: the file is opened in
\* text mode with newline=None, so each "\n" is written as os.linesep
RECURSIVE WrittenText(_, _)
WrittenText(data, os) ==
    IF data = <<>> THEN <<>>
    ELSE (IF Head(data) = "LF" THEN LineSep(os) ELSE <<Head(data)>>)
         \o WrittenText(Tail(data), os)

(***************************************************************************)
(* The workspace filesystem, as paths below the workspace root             *)
(***************************************************************************)
Absent == [kind |-> "absent"]

\* line 30: temp_dir = root_dir / "target" / "generated"
TempDir == <<"target", "generated">>

\* line 39: output_file.parent = root_dir / "headers"
HeadersDir == <<"headers">>

\* os.mkdir(path): the error it raises, "" when it creates the directory.
\* fault: the operating system refuses (permissions, read-only, disk full)
OsMkdirError(path, ds, fault) ==
    IF fault THEN "PermissionError"
    ELSE IF path \in ds THEN "FileExistsError"
    ELSE IF PathParent(path) # <<>> /\ PathParent(path) \notin ds THEN "FileNotFoundError"
    ELSE ""

\* pathlib.Path.mkdir(parents, exist_ok), called at lines 31 and 40 with
\* parents=True, exist_ok=True.  Result: the directories afterwards and the
\* error raised ("" when none)
RECURSIVE PathMkdir(_, _, _, _, _)
PathMkdir(path, parents, exist_ok, ds, fault) ==
    LET e == OsMkdirError(path, ds, fault)
    IN  IF e = "" THEN [dirs |-> ds \cup {path}, error |-> ""]
        ELSE IF e = "FileNotFoundError"
        THEN IF ~parents \/ path = <<>> THEN [dirs |-> ds, error |-> e]
             ELSE LET up == PathMkdir(PathParent(path), TRUE, TRUE, ds, fault)
                  IN  IF up.error # "" THEN up
                      ELSE PathMkdir(path, FALSE, exist_ok, up.dirs, fault)
        ELSE IF ~exist_ok \/ path \notin ds THEN [dirs |-> ds, error |-> e]
        ELSE [dirs |-> ds, error |-> ""]

\* line 31: temp_dir.mkdir(parents=True, exist_ok=True)
MkdirNoParents(path, ds, fault) == PathMkdir(path, FALSE, TRUE, ds, fault)

Mkdir(path, ds, fault) == PathMkdir(path, TRUE, TRUE, ds, fault)

Prefixes(s) == {SubSeq(s, 1, k) : k \in 0..(Len(s) - 1)}


(***************************************************************************)
(* State                                                                   *)
(***************************************************************************)
VARIABLES
    platform,       \* "posix" or "nt": where the script runs
    realDir,        \* the directory that really holds the script
    planned,        \* how many times the script is run in this behaviour
    overlap,        \* whether a run may start while another is running
    dirs,           \* directories that exist below the workspace root
    expanded_rs,    \* target/generated/expanded.rs
    dropbear_h,     \* headers/dropbear.h
    pc,             \* per run: where main() is
    root_dir,       \* per run: line 9
    result,         \* per run: lines 14 and 44
    expanded_code,  \* per run: line 27
    stdout,         \* per run: what main() printed
    stderr,         \* per run: what main() printed to sys.stderr
    exitCode,       \* per run: the process exit code, NoExit while it runs
    log,            \* per run: the tool invocations and filesystem calls made
    fsAtBegin,      \* per run: the workspace when the run began
    fsAtEnd         \* per run: the workspace when the run ended

vars == <<platform, realDir, planned, overlap, dirs, expanded_rs, dropbear_h, pc, root_dir,
          result, expanded_code, stdout, stderr, exitCode, log, fsAtBegin, fsAtEnd>>

envVars == <<platform, realDir, planned, overlap>>

NoExit == 0 - 1
NoResult == [returncode |-> NoExit]
Unset == <<"unset">>
NoFs == [kind |-> "unset"]

Terminal(p) == pc[p] \in {"Done", "Failed"}

Fs == [dirs |-> dirs, expanded_rs |-> expanded_rs, dropbear_h |-> dropbear_h]

\* lines 22 and 57: the fixed diagnostic labels
ExpandLabel == "Error: cargo expand failed"
CbindgenLabel == "Error: cbindgen failed"

\* an exception nobody catches: the interpreter prints the traceback and
\* the process exits with code 1
Traceback(error) == <<"Traceback (most recent call last)", error>>

\* text written to expanded.rs by a run, and what the header records:
\* whether it is the tool's whole output, the staged source it was made
\* from and the run whose cbindgen wrote it
File(text, p) == [kind |-> "file", text |-> text, by |-> p]
Header(kind, src, p) == [kind |-> kind, src |-> src, by |-> p]

\* a file left by an earlier run of the pipeline
StaleText == <<"a">>
StaleCode == File(StaleText, 0)
StaleHeader == Header("full", StaleText, 0)

\* workspaces the script can find: directories below the root are closed
\* under parent, a file exists only inside an existing directory
Workspaces ==
    {w \in [dirs : SUBSET {<<"target">>, TempDir, HeadersDir},
            expanded_rs : {Absent, StaleCode},
            dropbear_h : {Absent, StaleHeader}] :
        /\ TempDir \in w.dirs => <<"target">> \in w.dirs
        /\ w.expanded_rs # Absent => TempDir \in w.dirs
        /\ w.dropbear_h # Absent => HeadersDir \in w.dirs}

InitRun ==
    /\ pc = [p \in Runs |-> "Start"]
    /\ root_dir = [p \in Runs |-> Unset]
    /\ result = [p \in Runs |-> NoResult]
    /\ expanded_code = [p \in Runs |-> Unset]
    /\ stdout = [p \in Runs |-> <<>>]
    /\ stderr = [p \in Runs |-> <<>>]
    /\ exitCode = [p \in Runs |-> NoExit]
    /\ log = [p \in Runs |-> <<>>]
    /\ fsAtBegin = [p \in Runs |-> NoFs]
    /\ fsAtEnd = [p \in Runs |-> NoFs]

InitFs(ws) ==
    \E w \in ws :
        /\ dirs = w.dirs
        /\ expanded_rs = w.expanded_rs
        /\ dropbear_h = w.dropbear_h

\* a fresh checkout, and a workspace in which the pipeline has run before
FreshWorkspace == [dirs |-> {}, expanded_rs |-> Absent, dropbear_h |-> Absent]
BuiltWorkspace ==
    [dirs |-> {<<"target">>, TempDir, HeadersDir}, expanded_rs |-> StaleCode,
     dropbear_h |-> StaleHeader]

\* two runs in succession of the script in <workspace>/scripts
Init ==
    /\ platform = "posix"
    /\ realDir = <<"ws", "scripts">>
    /\ planned = 2
    /\ overlap = FALSE
    /\ InitFs({FreshWorkspace, BuiltWorkspace})
    /\ InitRun

\* two runs of the script in <workspace>/scripts that may overlap: nothing
\* in main() takes a lock or looks for another run
InitConcurrent ==
    /\ platform = "posix"
    /\ realDir = <<"ws", "scripts">>
    /\ planned = 2
    /\ overlap = TRUE
    /\ InitFs({FreshWorkspace, BuiltWorkspace})
    /\ InitRun

\* one run, on either platform, of a copy of the script in any directory
InitOnce ==
    /\ platform \in {"posix", "nt"}
    /\ realDir \in RealDirs
    /\ planned = 1
    /\ overlap = FALSE
    /\ InitFs(Workspaces)
    /\ InitRun

(***************************************************************************)
(* main(), lines 6-61                                                      *)
(***************************************************************************)
\* sys.exit(1) at lines 24 and 59
ExitFailure == 1

FailureCodeOfTool(res) == res.returncode

FailureCode(res) == ExitFailure

Exit(p, code, state) ==
    /\ pc' = [pc EXCEPT ![p] = state]
    /\ exitCode' = [exitCode EXCEPT ![p] = code]

\* the run ends: sys.exit(1), an uncaught exception, or main() returning
Finish(p, code, state, fs) ==
    /\ Exit(p, code, state)
    /\ fsAtEnd' = [fsAtEnd EXCEPT ![p] = fs]

Logged(p, event) == log' = [log EXCEPT ![p] = Append(@, event)]

\* lines 8-19: resolve the workspace root, announce, start `cargo expand`
\* there.  Runs are started one after the other unless they may overlap.
Begin(p, loc) ==
    /\ pc[p] = "Start"
    /\ p <= planned
    /\ overlap \/ \A q \in Runs : q < p => Terminal(q)
    /\ root_dir' = [root_dir EXCEPT ![p] = RootDir(loc)]
    /\ stdout' = [stdout EXCEPT ![p] = Append(@, "Expanding macros for eucalyptus-core...")]
    /\ Logged(p, [op |-> "exec", tool |-> "cargo", cwd |-> RootDir(loc)])
    /\ fsAtBegin' = [fsAtBegin EXCEPT ![p] = Fs]
    /\ pc' = [pc EXCEPT ![p] = "Expanding"]
    /\ UNCHANGED <<envVars, dirs, expanded_rs, dropbear_h, result, expanded_code,
                   stderr, exitCode, fsAtEnd>>


\* the tools keep to their contract: expanded source or bindings on success,
\* diagnostic text on standard error with a non-zero exit code on failure
ToolOutcomes(codes, outs) ==
    {o \in [returncode : codes, stdout : outs, stderr : ErrTexts] :
        /\ o.returncode = 0 => o.stderr = ""
        /\ o.returncode # 0 => o.stdout = <<>>}

\* lines 14-19 and 44-54: capture_output=True, text=True
Captured(o) ==
    [returncode |-> o.returncode, stdout |-> CapturedText(o.stdout), stderr |-> o.stderr]

\* lines 21 and 56: if result.returncode != 0
ToolFailedOnlyOne(res) == res.returncode = 1

ToolFailedNever(res) == FALSE

ToolFailed(res) == res.returncode # 0

\* lines 22-23 and 57-58: the label, then the tool's captured stderr
DiagnosticLabelOnly(label, res) == <<label>>

Diagnostic(label, res) == <<label, res.stderr>>

\* line 27: expanded_code = result.stdout
ExpandedCode(res) == res.stdout

\* lines 14-27: `cargo expand` exits; a failure is reported and ends the run
CargoReturns(p, o) ==
    /\ pc[p] = "Expanding"
    /\ result' = [result EXCEPT ![p] = Captured(o)]
    /\ Logged(p, [op |-> "exit", tool |-> "cargo", returncode |-> o.returncode,
                  stdout |-> o.stdout, stderr |-> o.stderr])
    /\ IF ToolFailed(Captured(o))
       THEN /\ stderr' = [stderr EXCEPT ![p] = @ \o Diagnostic(ExpandLabel, Captured(o))]
            /\ Finish(p, FailureCode(Captured(o)), "Failed", Fs)
            /\ UNCHANGED expanded_code
       ELSE /\ expanded_code' = [expanded_code EXCEPT ![p] = ExpandedCode(Captured(o))]
            /\ pc' = [pc EXCEPT ![p] = "Staging"]
            /\ UNCHANGED <<stderr, exitCode, fsAtEnd>>
    /\ UNCHANGED <<envVars, dirs, expanded_rs, dropbear_h, root_dir, stdout, fsAtBegin>>

\* an exception raised by a filesystem call propagates out of main()
RaiseSuppressedOnWrite(p, error, fs) ==
    /\ stderr' = [stderr EXCEPT ![p] = @ \o Traceback(error)]
    /\ IF pc[p] = "Writing"
       THEN pc' = [pc EXCEPT ![p] = "Staged"] /\ UNCHANGED <<exitCode, fsAtEnd>>
       ELSE Finish(p, ExitFailure, "Failed", fs)

Raise(p, error, fs) ==
    /\ stderr' = [stderr EXCEPT ![p] = @ \o Traceback(error)]
    /\ Finish(p, ExitFailure, "Failed", fs)

\* lines 30-31: create target/generated
StageMkdir(p, fault) ==
    /\ pc[p] = "Staging"
    /\ LET r == Mkdir(TempDir, dirs, fault)
       IN  /\ dirs' = r.dirs
           /\ Logged(p, [op |-> "mkdir", path |-> TempDir, error |-> r.error])
           /\ IF r.error # ""
              THEN Raise(p, r.error, [Fs EXCEPT !.dirs = r.dirs])
              ELSE /\ pc' = [pc EXCEPT ![p] = "Writing"]
                   /\ UNCHANGED <<stderr, exitCode, fsAtEnd>>
    /\ UNCHANGED <<envVars, expanded_rs, dropbear_h, root_dir, result, expanded_code,
                   stdout, fsAtBegin>>

\* line 32: temp_file = temp_dir / "expanded.rs"
TempFile(p) == root_dir[p] \o TempDir \o <<"expanded.rs">>

\* line 35: what write_text leaves in the file.  fault "open": the file
\* cannot be opened and keeps its content; fault "write": the file was
\* truncated by the open and the write stops part-way
WriteOutcomesAppend(data, ds, old) ==
    IF TempDir \notin ds THEN {[error |-> "FileNotFoundError", file |-> old]}
    ELSE {[error |-> "", text |-> (IF old = Absent THEN <<>> ELSE old.text) \o data]}

WriteOutcomesNever(data, ds, old) == {}

WriteOutcomes(data, ds, old) ==
    IF TempDir \notin ds THEN {[error |-> "FileNotFoundError", file |-> old]}
    ELSE {[error |-> "", text |-> data]}
         \cup {[error |-> "PermissionError", file |-> old]}
         \cup {[error |-> "OSError", text |-> t] : t \in Prefixes(data)}

\* lines 32-35: announce and write the expanded code
StageWrite(p, w) ==
    /\ pc[p] = "Writing"
    /\ w \in WriteOutcomes(WrittenText(expanded_code[p], platform), dirs, expanded_rs)
    /\ stdout' = [stdout EXCEPT ![p] = Append(@, <<"Writing expanded code to", TempFile(p)>>)]
    /\ LET left == IF "text" \in DOMAIN w THEN File(w.text, p) ELSE w.file
       IN  /\ expanded_rs' = left
           /\ Logged(p, [op |-> "write", path |-> TempDir \o <<"expanded.rs">>,
                         data |-> expanded_code[p], error |-> w.error, left |-> left])
           /\ IF w.error # ""
              THEN Raise(p, w.error, [Fs EXCEPT !.expanded_rs = left])
              ELSE /\ pc' = [pc EXCEPT ![p] = "Staged"]
                   /\ UNCHANGED <<stderr, exitCode, fsAtEnd>>
    /\ UNCHANGED <<envVars, dirs, dropbear_h, root_dir, result, expanded_code, fsAtBegin>>

\* line 39: output_file = root_dir / "headers" / "dropbear.h"
OutputFile(p) == root_dir[p] \o HeadersDir \o <<"dropbear.h">>

\* lines 38-54: announce, create headers/, start cbindgen on the staged file
BeginGenerating(p, fault) ==
    /\ pc[p] = "Staged"
    /\ stdout' = [stdout EXCEPT ![p] = Append(@, "Generating C bindings...")]
    /\ LET r == Mkdir(HeadersDir, dirs, fault)
           made == [op |-> "mkdir", path |-> HeadersDir, error |-> r.error]
           exec == [op |-> "exec", tool |-> "cbindgen", cwd |-> root_dir[p],
                    config |-> Append(root_dir[p], "cbindgen.toml"),
                    output |-> OutputFile(p), input |-> TempFile(p)]
       IN  /\ dirs' = r.dirs
           /\ IF r.error # ""
              THEN /\ Logged(p, made)
                   /\ Raise(p, r.error, [Fs EXCEPT !.dirs = r.dirs])
              ELSE /\ log' = [log EXCEPT ![p] = @ \o <<made, exec>>]
                   /\ pc' = [pc EXCEPT ![p] = "Generating"]
                   /\ UNCHANGED <<stderr, exitCode, fsAtEnd>>
    /\ UNCHANGED <<envVars, expanded_rs, dropbear_h, root_dir, result, expanded_code,
                   fsAtBegin>>

\* what cbindgen leaves at --output: nothing new, its whole output for the
\* source it read, or (only when it fails) a part of it
HeaderEffects(o) ==
    IF o.returncode = 0 THEN {"none", "full"} ELSE {"none", "full", "partial"}

HeaderAfterRemovingOld(effect, old, src, p) ==
    IF src = Absent THEN old
    ELSE IF effect = "none" THEN Absent ELSE Header(effect, src.text, p)

HeaderAfterFromMemory(effect, old, src, p) ==
    IF effect = "none" \/ src = Absent THEN old
    ELSE Header(effect, WrittenText(expanded_code[p], platform), p)

HeaderAfter(effect, old, src, p) ==
    IF effect = "none" \/ src = Absent THEN old ELSE Header(effect, src.text, p)

\* lines 44-61: cbindgen exits; a failure is reported, a success confirmed
CbindgenReturns(p, o, effect) ==
    /\ pc[p] = "Generating"
    /\ result' = [result EXCEPT ![p] = Captured(o)]
    /\ Logged(p, [op |-> "exit", tool |-> "cbindgen", returncode |-> o.returncode,
                  stderr |-> o.stderr, effect |-> effect, read |-> expanded_rs])
    /\ dropbear_h' = HeaderAfter(effect, dropbear_h, expanded_rs, p)
    /\ IF ToolFailed(Captured(o))
       THEN /\ stderr' = [stderr EXCEPT ![p] = @ \o Diagnostic(CbindgenLabel, Captured(o))]
            /\ Finish(p, FailureCode(Captured(o)), "Failed",
                      [Fs EXCEPT !.dropbear_h = dropbear_h'])
            /\ UNCHANGED stdout
       ELSE /\ stdout' = [stdout EXCEPT ![p] = Append(@, <<"Generated", OutputFile(p)>>)]
            /\ Finish(p, 0, "Done", [Fs EXCEPT !.dropbear_h = dropbear_h'])
            /\ UNCHANGED stderr
    /\ UNCHANGED <<envVars, dirs, expanded_rs, root_dir, expanded_code, fsAtBegin>>

Next ==
    \/ \E p \in Runs : \E loc \in LocationsOf(realDir) : Begin(p, loc)
    \/ \E p \in Runs : \E o \in ToolOutcomes(CargoCodes, Texts) : CargoReturns(p, o)
    \/ \E p \in Runs : \E fault \in BOOLEAN : StageMkdir(p, fault)
    \/ \E p \in Runs : \E w \in WriteOutcomes(WrittenText(expanded_code[p], platform),
                                              dirs, expanded_rs) : StageWrite(p, w)
    \/ \E p \in Runs : \E fault \in BOOLEAN : BeginGenerating(p, fault)
    \/ \E p \in Runs : \E o \in ToolOutcomes(CbindgenCodes, {<<>>}) :
          \E effect \in HeaderEffects(o) : CbindgenReturns(p, o, effect)

Spec == Init /\ [][Next]_vars

SpecOnce == InitOnce /\ [][Next]_vars

\* the statements of main() that run p executes itself once started, and the
\* returns of the two child processes it waits for
OrchestratorStep(p) ==
    \/ \E fault \in BOOLEAN : StageMkdir(p, fault)
    \/ \E w \in WriteOutcomes(WrittenText(expanded_code[p], platform),
                               dirs, expanded_rs) : StageWrite(p, w)
    \/ \E fault \in BOOLEAN : BeginGenerating(p, fault)

ToolReturns(p) ==
    \/ \E o \in ToolOutcomes(CargoCodes, Texts) : CargoReturns(p, o)
    \/ \E o \in ToolOutcomes(CbindgenCodes, {<<>>}) :
          \E effect \in HeaderEffects(o) : CbindgenReturns(p, o, effect)

\* the interpreter goes on to the next statement (every filesystem call
\* returns or raises), and each child process exits
Fairness == \A p \in Runs : WF_vars(OrchestratorStep(p)) /\ WF_vars(ToolReturns(p))

SpecFair == InitOnce /\ [][Next]_vars /\ Fairness

\* overlapping runs: the same steps, the expansions drawn from texts without
\* line ends (the translations of a line end are those of a single run)
OverlapTexts == SeqsUpTo({"a"}, MaxLen)

NextConcurrent ==
    \/ \E p \in Runs : \E loc \in LocationsOf(realDir) : Begin(p, loc)
    \/ \E p \in Runs : \E o \in ToolOutcomes(CargoCodes, OverlapTexts) : CargoReturns(p, o)
    \/ \E p \in Runs : \E fault \in BOOLEAN : StageMkdir(p, fault)
    \/ \E p \in Runs : \E w \in WriteOutcomes(WrittenText(expanded_code[p], platform),
                                              dirs, expanded_rs) : StageWrite(p, w)
    \/ \E p \in Runs : \E fault \in BOOLEAN : BeginGenerating(p, fault)
    \/ \E p \in Runs : \E o \in ToolOutcomes(CbindgenCodes, {<<>>}) :
          \E effect \in HeaderEffects(o) : CbindgenReturns(p, o, effect)

SpecConcurrent == InitConcurrent /\ [][NextConcurrent]_vars


(***************************************************************************)
(* Reading a run's log                                                     *)
(***************************************************************************)
IsExec(e, tool) == e.op = "exec" /\ e.tool = tool
IsExit(e, tool) == e.op = "exit" /\ e.tool = tool
IsMkdir(e, path) == e.op = "mkdir" /\ e.path = path
IsWrite(e) == e.op = "write"

\* the step failed: a tool's non-zero exit code or a filesystem error
IsFailure(e) ==
    \/ e.op = "exit" /\ e.returncode # 0
    \/ e.op \in {"mkdir", "write"} /\ e.error # ""

Events(p) == {log[p][i] : i \in 1..Len(log[p])}

\* the exit of run p's invocation of the tool, when it has exited
Exits(p, tool) == {e \in Events(p) : IsExit(e, tool)}

\* the Artifact Stager or the Binding Generation Stage did something
StagerRan(p) == \E e \in Events(p) : IsMkdir(e, TempDir) \/ IsWrite(e)
BindingStageRan(p) == \E e \in Events(p) : IsMkdir(e, HeadersDir) \/ IsExec(e, "cbindgen")

\* the staged artifact was persisted whole by run p
Persisted(p) == \E e \in Events(p) : IsWrite(e) /\ e.error = ""

(***************************************************************************)
(* Claims                                                                  *)
(***************************************************************************)
\* C1: in every run, when `cargo expand` returns a non-zero exit code,
\* neither the Artifact Stager (mkdir of target/generated, write of
\* expanded.rs) nor the Binding Generation Stage (mkdir of headers, the
\* cbindgen invocation) runs in that run, and the exit code is non-zero.
C1_ExpandFailureStopsPipeline ==
    \A p \in Runs : \A e \in Exits(p, "cargo") :
        e.returncode # 0 =>
            /\ ~StagerRan(p)
            /\ ~BindingStageRan(p)
            /\ pc[p] = "Failed"
            /\ exitCode[p] \notin {0, NoExit}
            /\ log[p][Len(log[p])] = e

C1_Witness ==
    \E p \in Runs : \E e \in Exits(p, "cargo") :
        e.returncode = 101 /\ pc[p] = "Failed" /\ exitCode[p] = 1

\* C2: cbindgen is invoked only if, earlier in the same run, `cargo expand`
\* returned exit code zero and its captured output was non-empty and that
\* output has been written to target/generated/expanded.rs.
C2_BindgenNeedsNonEmptyExpansion ==
    \A p \in Runs :
        (\E x \in Events(p) : IsExec(x, "cbindgen")) =>
            /\ \E e \in Exits(p, "cargo") :
                  e.returncode = 0 /\ e.stdout # <<>> /\ expanded_code[p] # <<>>
            /\ Persisted(p)

\* C3: in every terminal state headers/dropbear.h is absent or holds the
\* complete output of a cbindgen invocation that exited zero, and a run
\* that ends in Failed leaves no header written by its own invocation.
WrittenByZeroExit(h) ==
    \/ h.by = 0
    \/ \E e \in Exits(h.by, "cbindgen") : e.returncode = 0 /\ e.effect = "full"

C3_HeaderNeverPartial ==
    \A p \in Runs :
        Terminal(p) =>
            LET h == fsAtEnd[p].dropbear_h
            IN  /\ h # Absent => h.kind = "full" /\ WrittenByZeroExit(h)
                /\ pc[p] = "Failed" /\ h # Absent => h.by # p

\* C4: the exit code is 0 only if macro expansion, staging and binding
\* generation all completed successfully; if either tool exits non-zero the
\* exit code is 1; the first failing step is the last step of the run.
AllStagesSucceeded(p) ==
    /\ \E e \in Exits(p, "cargo") : e.returncode = 0
    /\ \E e \in Events(p) : IsMkdir(e, TempDir) /\ e.error = ""
    /\ Persisted(p)
    /\ \E e \in Events(p) : IsMkdir(e, HeadersDir) /\ e.error = ""
    /\ \E e \in Exits(p, "cbindgen") : e.returncode = 0

C4_ExitCode ==
    \A p \in Runs :
        /\ exitCode[p] = 0 => pc[p] = "Done" /\ AllStagesSucceeded(p)
        /\ \A tool \in {"cargo", "cbindgen"} : \A e \in Exits(p, tool) :
              e.returncode # 0 => exitCode[p] = 1
        /\ \A i \in 1..Len(log[p]) :
              IsFailure(log[p][i]) => i = Len(log[p]) /\ exitCode[p] # 0
        /\ pc[p] = "Done" => exitCode[p] = 0
        /\ pc[p] = "Failed" => exitCode[p] # 0

C4_Witness ==
    /\ pc[1] = "Done" /\ exitCode[1] = 0
    /\ pc[2] = "Failed" /\ exitCode[2] = 1
    /\ \E e \in Exits(2, "cbindgen") : e.returncode # 0

\* C5: for every output text T, when `cargo expand` exits zero with
\* standard output T, the content of target/generated/expanded.rs after
\* the Artifact Stager step equals T exactly.
C5_StagedEqualsOutput ==
    \A p \in Runs : \A e \in Exits(p, "cargo") :
        pc[p] = "Staged" => expanded_rs = File(e.stdout, p)

\* C6: two runs in succession on the same workspace, the tools behaving
\* the same in both, leave the same staged artifact and the same header
\* after the second run as after the first, and end in the same terminal
\* state with the same exit code.
Content(f) == IF "by" \in DOMAIN f THEN [f EXCEPT !.by = 0] ELSE f

ToolResponse(e) ==
    IF IsExit(e, "cargo")
    THEN [tool |-> "cargo", returncode |-> e.returncode, stdout |-> e.stdout,
          stderr |-> e.stderr]
    ELSE [tool |-> "cbindgen", returncode |-> e.returncode, stderr |-> e.stderr,
          effect |-> e.effect]

\* what the filesystem answered: the error raised and, for a write that
\* stopped part-way, how many characters went through
FsResponse(e) ==
    IF IsWrite(e)
    THEN [op |-> "write", error |-> e.error,
          written |-> IF e.error = "OSError" THEN Len(e.left.text) ELSE 0]
    ELSE [op |-> "mkdir", path |-> e.path, error |-> e.error]

IsToolExit(e) == e.op = "exit"
IsFsCall(e) == e.op \in {"mkdir", "write"}

Responses(events, Answer(_)) == [i \in 1..Len(events) |-> Answer(events[i])]

ToolsBehaved(p) == Responses(SelectSeq(log[p], IsToolExit), ToolResponse)
FsBehaved(p) == Responses(SelectSeq(log[p], IsFsCall), FsResponse)

SameOutcome(p, q) ==
    /\ Content(fsAtEnd[p].expanded_rs) = Content(fsAtEnd[q].expanded_rs)
    /\ Content(fsAtEnd[p].dropbear_h) = Content(fsAtEnd[q].dropbear_h)
    /\ pc[p] = pc[q]
    /\ exitCode[p] = exitCode[q]

C6_IdempotentGivenSameTools ==
    Terminal(1) /\ Terminal(2) /\ ToolsBehaved(1) = ToolsBehaved(2) => SameOutcome(1, 2)

\* C6 as amended: the same holds when the filesystem too answers the same
\* in both runs (a write that fails part-way may leave a different part)
C6_IdempotentGivenSameEnvironment ==
    /\ Terminal(1) /\ Terminal(2)
    /\ ToolsBehaved(1) = ToolsBehaved(2)
    /\ FsBehaved(1) = FsBehaved(2)
    => SameOutcome(1, 2)

C6_Witness ==
    /\ pc[1] = "Done" /\ pc[2] = "Done"
    /\ ToolsBehaved(1) = ToolsBehaved(2)
    /\ FsBehaved(1) = FsBehaved(2)
    /\ fsAtBegin[1] = BuiltWorkspace
    /\ fsAtEnd[2].expanded_rs = File(<<"a", "a">>, 2)
    /\ fsAtEnd[2].dropbear_h = Header("full", <<"a", "a">>, 2)

\* C7: whichever of target/, target/generated/ and headers/ exist when the
\* run begins, the layout never makes a mkdir fail; the directories exist
\* once their stage is past; a run in which both tools exit zero is Done
\* with exit code 0.
LayoutErrors == {"FileExistsError", "FileNotFoundError"}

C7_DirectoriesCreatedLazily ==
    \A p \in Runs :
        /\ \A e \in Events(p) : e.op \in {"mkdir", "write"} => e.error \notin LayoutErrors
        /\ pc[p] \in {"Writing", "Staged", "Generating", "Done"} =>
              {<<"target">>, TempDir} \subseteq dirs
        /\ pc[p] \in {"Generating", "Done"} => HeadersDir \in dirs
        /\ (\E e \in Exits(p, "cargo") : e.returncode = 0)
           /\ (\E e \in Exits(p, "cbindgen") : e.returncode = 0)
           => pc[p] = "Done" /\ exitCode[p] = 0

C7_Witness ==
    \E p \in Runs :
        /\ pc[p] = "Done" /\ exitCode[p] = 0
        /\ fsAtBegin[p].dirs = {}
        /\ dirs = {<<"target">>, TempDir, HeadersDir}

\* C8: the resolved workspace root is the grandparent directory of the
\* script when the directory holding the script is named "scripts", and
\* that directory itself otherwise, however the script was named.
ExpectedRoot ==
    IF realDir # <<>> /\ realDir[Len(realDir)] = "scripts"
    THEN SubSeq(realDir, 1, Len(realDir) - 1)
    ELSE realDir

C8_RootResolved ==
    \A p \in Runs :
        /\ pc[p] # "Start" => root_dir[p] = ExpectedRoot
        /\ \A e \in Events(p) : e.op = "exec" => e.cwd = ExpectedRoot
        /\ pc[p] = "Start" /\ p <= planned /\ (\A q \in Runs : q < p => Terminal(q))
           => \A loc \in LocationsOf(realDir) : ENABLED Begin(p, loc)

C8_Witness ==
    \E p \in Runs : realDir = <<"ws", "scripts">> /\ root_dir[p] = <<"ws">>

\* C9: when a tool exits non-zero with captured standard error E, the run
\* writes the stage's fixed label followed by E to the error stream and
\* exits non-zero.
Label(tool) == IF tool = "cargo" THEN ExpandLabel ELSE CbindgenLabel

C9_DiagnosticSurfaced ==
    \A p \in Runs : \A tool \in {"cargo", "cbindgen"} : \A e \in Exits(p, tool) :
        e.returncode # 0 =>
            /\ stderr[p] = <<Label(tool), e.stderr>>
            /\ result[p].stderr = e.stderr
            /\ exitCode[p] \notin {0, NoExit}

C9_Witness ==
    \E p \in Runs :
        /\ \E e \in Exits(p, "cargo") : e.returncode = 0
        /\ \E e \in Exits(p, "cbindgen") : e.returncode = 1 /\ e.stderr = "bad config"
        /\ stderr[p] = <<CbindgenLabel, "bad config">>
        /\ exitCode[p] = 1


\* C10: every run follows Start -> Expanding -> Staged -> Generating ->
\* Done in this order without revisiting a state, each tool is invoked at
\* most once, no stage begins before its predecessor has completed, and
\* Failed is absorbing and entered only from Expanding or Generating.
\* The Artifact Stager's two calls (lines 31 and 35) are the positions
\* "Staging" and "Writing" between Expanding and Staged; the step that
\* leaves Staged (lines 38-54) belongs to the Binding Generation Stage.
Chain ==
    {<<"Start", "Expanding">>, <<"Expanding", "Staging">>, <<"Staging", "Writing">>,
     <<"Writing", "Staged">>, <<"Staged", "Generating">>, <<"Generating", "Done">>}

\* the calls of a run that completes, in the order main() makes them
FullRun ==
    <<"exec cargo", "exit cargo", "mkdir generated", "write", "mkdir headers",
      "exec cbindgen", "exit cbindgen">>

CallName(e) ==
    IF e.op \in {"exec", "exit"} THEN IF e.tool = "cargo" THEN e.op \o " cargo"
                                      ELSE e.op \o " cbindgen"
    ELSE IF e.op = "mkdir" THEN IF e.path = TempDir THEN "mkdir generated"
                                ELSE "mkdir headers"
    ELSE "write"

Calls(p) == [i \in 1..Len(log[p]) |-> CallName(log[p][i])]

\* where main() is after each number of calls made without a failure
PositionAfter ==
    <<"Expanding", "Staging", "Writing", "Staged", "Staged", "Generating", "Done">>

InOrder(p) ==
    /\ Len(log[p]) <= Len(FullRun)
    /\ Calls(p) = SubSeq(FullRun, 1, Len(log[p]))
    /\ \A i \in 1..(Len(log[p]) - 1) : ~IsFailure(log[p][i])
    /\ IF log[p] = <<>> THEN pc[p] = "Start"
       ELSE IF IsFailure(log[p][Len(log[p])]) THEN pc[p] = "Failed"
       ELSE pc[p] = PositionAfter[Len(log[p])]

StepFrom(p, failFrom) ==
    pc'[p] # pc[p] =>
        \/ <<pc[p], pc'[p]>> \in Chain
        \/ pc'[p] = "Failed" /\ pc[p] \in failFrom

C10_LinearFailedFromToolsOnly ==
    [][\A p \in Runs : StepFrom(p, {"Expanding", "Staged", "Generating"})]_vars

\* C10 as amended: Failed is entered from Expanding or Generating when the
\* tool exits non-zero, and also from the staging step or while creating
\* headers/ when a filesystem call raises; the rest as stated.
FailureCause(p) ==
    pc'[p] = "Failed" /\ pc[p] # "Failed" =>
        LET e == log'[p][Len(log'[p])]
        IN  /\ pc[p] \in {"Expanding", "Generating"} => e.op = "exit" /\ e.returncode # 0
            /\ pc[p] \in {"Staging", "Writing", "Staged"} =>
                  e.op \in {"mkdir", "write"} /\ e.error # ""

C10_LinearStateMachine ==
    /\ [](\A p \in Runs : InOrder(p))
    /\ [][\A p \in Runs :
            /\ StepFrom(p, {"Expanding", "Staging", "Writing", "Staged", "Generating"})
            /\ FailureCause(p)]_vars

C10_Witness ==
    /\ pc[1] = "Done" /\ Calls(1) = FullRun
    /\ pc[2] = "Failed" /\ Calls(2) = SubSeq(FullRun, 1, 4)

\* the Artifact Stager of run p failed: creating target/generated or writing
\* expanded.rs raised
StagerFailed(p) ==
    \E e \in Events(p) : (IsMkdir(e, TempDir) \/ IsWrite(e)) /\ e.error # ""

\* C11: in every run whose Artifact Stager fails (mkdir of target/generated
\* or write of expanded.rs raises), the run is over in Failed with a non-zero
\* exit code and a traceback, that failure is the last thing the run did,
\* headers/ was neither created nor so much as attempted by the run, and
\* cbindgen was never invoked.
C11_StagerFailureAborts ==
    \A p \in Runs :
        StagerFailed(p) =>
            /\ pc[p] = "Failed"
            /\ exitCode[p] \notin {0, NoExit}
            /\ IsFailure(log[p][Len(log[p])])
            /\ ~IsMkdir(log[p][Len(log[p])], HeadersDir)
            /\ ~BindingStageRan(p)
            /\ HeadersDir \in fsAtEnd[p].dirs <=> HeadersDir \in fsAtBegin[p].dirs
            /\ fsAtEnd[p].dropbear_h = fsAtBegin[p].dropbear_h

C11_Witness ==
    \E p \in Runs : \E e \in Events(p) :
        /\ IsWrite(e) /\ e.error = "OSError"
        /\ pc[p] = "Failed" /\ exitCode[p] = 1
        /\ HeadersDir \notin dirs
        /\ \E q \in Runs : \E f \in Events(q) :
              IsMkdir(f, TempDir) /\ f.error = "PermissionError" /\ pc[q] = "Failed"

\* C12: the Macro Expansion Stage writes nothing: while a run is in Expanding
\* the directories, expanded.rs and dropbear.h are as the run found them, and
\* a run whose `cargo expand` exited non-zero ends with all of them (the
\* existence of target/generated and headers, the content of expanded.rs and
\* of dropbear.h, those of a prior run included) as they were when it began.
C12_ExpandFailureLeavesWorkspace ==
    \A p \in Runs :
        /\ pc[p] = "Expanding" => Fs = fsAtBegin[p]
        /\ \A e \in Exits(p, "cargo") :
              e.returncode # 0 /\ Terminal(p) => fsAtEnd[p] = fsAtBegin[p]

C12_Witness ==
    /\ pc[1] = "Done" /\ pc[2] = "Failed"
    /\ \E e \in Exits(2, "cargo") : e.returncode # 0
    /\ expanded_rs.kind = "file" /\ expanded_rs.by = 1
    /\ dropbear_h.kind = "full" /\ dropbear_h.by = 1
    /\ fsAtEnd[2] = fsAtEnd[1]

\* run p's expansion succeeded and its binding generation then failed
GenerationFailed(p) ==
    /\ \E e \in Exits(p, "cargo") : e.returncode = 0
    /\ \E e \in Exits(p, "cbindgen") : e.returncode # 0

\* C13: a run whose expansion succeeds with output T and whose binding
\* generation then fails ends (Failed) with expanded.rs existing and holding
\* T; and the next run, when its expansion succeeds with output T2 and it has
\* staged, leaves expanded.rs holding exactly T2.
C13_StaleArtifactKeptThenOverwritten ==
    \A p \in Runs :
        GenerationFailed(p) =>
            /\ \A e \in Exits(p, "cargo") : fsAtEnd[p].expanded_rs = File(e.stdout, p)
            /\ \A q \in Runs : \A e \in Exits(q, "cargo") :
                  q = p + 1 /\ Persisted(q) => expanded_rs = File(e.stdout, q)

\* C14: two overlapping runs share target/generated/expanded.rs without any
\* synchronization: what a run's cbindgen reads is whatever a write by either
\* run left in the file last, its own or the other's; the header it writes
\* is made from that content; and its exit code zero alone takes the run to
\* Done with exit code 0, whoever wrote the content.
C14_GeneratorReadsSharedArtifact ==
    \A p \in Runs : \A e \in Exits(p, "cbindgen") :
        /\ e.read.kind = "file"
        /\ \E w \in Events(e.read.by) : IsWrite(w) /\ w.left = e.read
        /\ e.effect # "none" => fsAtEnd[p].dropbear_h = Header(e.effect, e.read.text, p)
        /\ e.returncode = 0 => pc[p] = "Done" /\ exitCode[p] = 0

\* the race: run 1 is Done with exit code 0 and its header was generated
\* from the expansion output of run 2, which differs from its own
C14_Witness ==
    /\ pc[1] = "Done" /\ exitCode[1] = 0
    /\ Persisted(1)
    /\ \E e \in Exits(1, "cbindgen") :
          /\ e.read = File(expanded_code[2], 2)
          /\ e.read.text # expanded_code[1]
          /\ e.effect = "full"
          /\ fsAtEnd[1].dropbear_h = Header("full", expanded_code[2], 1)

Blocked(p) == pc[p] \in {"Expanding", "Generating"}

\* the step is the return of the tool run p is waiting for
ToolReturned(p) ==
    /\ Len(log'[p]) = Len(log[p]) + 1
    /\ IsExit(log'[p][Len(log'[p])], IF pc[p] = "Expanding" THEN "cargo" ELSE "cbindgen")

\* C15: when every tool invocation returns, every started run eventually is
\* Done or Failed; while a run waits in Expanding or Generating the
\* orchestrator has no step of its own to take, and the run leaves that
\* state only by the return of the tool it waits for (no timeout, no retry).
C15_TerminatesWhenToolsReturn ==
    /\ \A p \in Runs : (pc[p] # "Start") ~> Terminal(p)
    /\ [](\A p \in Runs : Blocked(p) => ~ENABLED OrchestratorStep(p))
    /\ [][\A p \in Runs : Blocked(p) /\ pc'[p] # pc[p] => ToolReturned(p)]_vars

C15_Witness ==
    /\ pc[1] = "Failed"
    /\ \E e \in Exits(1, "cargo") : e.returncode = 0
    /\ \E e \in Exits(1, "cbindgen") : e.returncode # 0

\* the fourth and last line run p printed on standard output (after the
\* three progress lines) confirms the header path
Confirmed(p) ==
    /\ Len(stdout[p]) = 4
    /\ stdout[p][4] = <<"Generated", root_dir[p] \o <<"headers", "dropbear.h">>>>

\* C16: a run is Done, with the confirmation naming headers/dropbear.h as
\* its last output and exit code 0, exactly when its cbindgen invocation
\* exited with code zero; a non-zero code makes it Failed with a non-zero
\* exit code and no confirmation.  Neither depends on what the invocation
\* did to the header (nothing, all of it, a part of it).
C16_DoneIffGeneratorExitZero ==
    \A p \in Runs :
        /\ pc[p] = "Done" <=> \E e \in Exits(p, "cbindgen") : e.returncode = 0
        /\ pc[p] = "Done" <=> Confirmed(p)
        /\ pc[p] = "Done" => exitCode[p] = 0
        /\ \A e \in Exits(p, "cbindgen") :
              e.returncode # 0 => pc[p] = "Failed" /\ exitCode[p] \notin {0, NoExit}

\* run 1 is Done although no header exists; run 2 is Failed although
\* its invocation wrote a whole header
C16_Witness ==
    /\ pc[1] = "Done" /\ Confirmed(1) /\ fsAtEnd[1].dropbear_h = Absent
    /\ pc[2] = "Failed" /\ dropbear_h.kind = "full" /\ dropbear_h.by = 2
    /\ \E e \in Exits(2, "cbindgen") : e.returncode # 0 /\ e.effect = "full"

\* the positions in run p's log of its writes of expanded.rs and of its
\* invocation of cbindgen
WriteAt(p) == {i \in 1..Len(log[p]) : IsWrite(log[p][i])}
InvokedAt(p) == {i \in 1..Len(log[p]) : IsExec(log[p][i], "cbindgen")}

\* C17: runs not overlapping, when a run has invoked cbindgen it has written
\* expanded.rs exactly once, before the invocation, and while the invocation
\* runs the file holds exactly the standard output of this run's
\* `cargo expand`, written by this run.
C17_GeneratorInputIsOwnOutput ==
    \A p \in Runs :
        pc[p] = "Generating" =>
            /\ Cardinality(WriteAt(p)) = 1
            /\ \A i \in WriteAt(p) : \A j \in InvokedAt(p) : i < j
            /\ \A e \in Exits(p, "cargo") : expanded_rs = File(e.stdout, p)

\* the step is the return of a cbindgen invocation that wrote to --output
GeneratorWrote ==
    \E p \in Runs :
        /\ pc[p] = "Generating" /\ Terminal(p)'
        /\ LET e == log'[p][Len(log'[p])]
           IN  IsExit(e, "cbindgen") /\ e.effect # "none"

\* C18: across any sequence of runs, headers/dropbear.h changes only in the
\* step in which a cbindgen invocation that wrote its output returns: no
\* other step creates, changes or removes it, and a run that ends without
\* having invoked cbindgen ends with the header it found.
C18_HeaderChangesOnlyByGenerator ==
    /\ [][dropbear_h' # dropbear_h => GeneratorWrote]_vars
    /\ [](\A p \in Runs : Terminal(p) /\ InvokedAt(p) = {} =>
                               fsAtEnd[p].dropbear_h = fsAtBegin[p].dropbear_h)

C18_Witness ==
    /\ pc[1] = "Done" /\ pc[2] = "Failed"
    /\ StagerFailed(2)
    /\ fsAtBegin[2].dropbear_h = Header("full", expanded_code[1], 1)
    /\ dropbear_h = fsAtBegin[2].dropbear_h

====
